---- MODULE Spec2Model ----
(***************************************************************************)
(* Model of src/pipeline.py: the batch pipeline main() and its stages      *)
(* load_data, audit_data, clean_data, add_features, save_tables,           *)
(* save_figures and the final CSV write.                                   *)
(*                                                                         *)
(* Numbers of the four measurement columns are kept in fixed point, as a   *)
(* count of halves (v = 2 * value), so that the median of an even number   *)
(* of whole raw values is exact.  A cell is a record: k = "num" with its   *)
(* value v, k = "nan" (missing) or k = "text" (an unparseable string).     *)
(***************************************************************************)
EXTENDS Integers, Sequences, FiniteSets, TLC

VARIABLES
    pc,        \* position of main(): the stage that runs next
    file,      \* the raw input file at RAW_DATA_PATH
    dirs,      \* TRUE once create_directories() has run
    df_raw,    \* main's df_raw
    audit,     \* main's audit (the one-row summary)
    df,        \* the frame clean_data / add_features work on (df_clean, df_final)
    files,     \* output files this run has written completely
    partial,   \* output files a failed write of this run left incomplete
    printed,   \* TRUE once the completion message is printed
    err        \* the stage whose exception ended the run, "" when none did

vars == <<pc, file, dirs, df_raw, audit, df, files, partial, printed, err>>

(***************************************************************************)
(* Bounds of the model.                                                    *)
(***************************************************************************)
MaxRows == 3

(***************************************************************************)
(* Cells.                                                                  *)
(***************************************************************************)
NaN == [k |-> "nan", v |-> 0]
Text == [k |-> "text", v |-> 0]
Num(n) == [k |-> "num", v |-> 2 * n]
Half(h) == [k |-> "num", v |-> h]

notna(c) == c.k # "nan"
isna(c) == c.k = "nan"

(***************************************************************************)
(* Columns and output files.                                               *)
(***************************************************************************)
RAW_COLUMNS ==
    {"id", "age", "gender", "height", "weight", "ap_hi", "ap_lo",
     "cholesterol", "gluc", "smoke", "alco", "active", "cardio"}

KEY_COLUMNS == <<"height", "weight", "ap_hi", "ap_lo">>

KeyCols == {KEY_COLUMNS[i] : i \in 1..Len(KEY_COLUMNS)}

AUDIT_FILE == "audit_summary.csv"
TABLE_FILES ==
    <<"descriptive_statistics.csv", "group_comparison.csv", "correlation_matrix.csv">>
FIGURE_FILES == <<"bmi_distribution.png", "ap_hi_boxplot_by_cardio.png">>
PROCESSED_DATA_PATH == "cardio_clean.csv"

OutputFiles ==
    {AUDIT_FILE, PROCESSED_DATA_PATH}
        \cup {TABLE_FILES[i] : i \in 1..3} \cup {FIGURE_FILES[i] : i \in 1..2}

NoFrame == <<>>
NoAudit == [rows |-> 0, columns |-> 0, duplicates |-> 0, max_missing |-> 0]

(***************************************************************************)
(* Helpers over frames (sequences of rows; a row maps column -> value).    *)
(***************************************************************************)
Rows(t) == 1..Len(t)

\* df[col] = vals, and df.loc[mask, col] = ..., with vals the new column
SetCol(t, col, vals) ==
    [i \in Rows(t) |-> [t[i] EXCEPT ![col] = vals[i]]]

\* df[col] = vals for a column the frame does not have yet
AddCol(t, col, vals) ==
    [i \in Rows(t) |-> (col :> vals[i]) @@ t[i]]

(***************************************************************************)
(* audit_data                                                              *)
(***************************************************************************)
duplicated(t, i) == \E j \in 1..(i - 1) : t[j] = t[i]

MissingIn(t, col) == Cardinality({i \in Rows(t) : isna(t[i][col])})

MaxOver(S) == IF S = {} THEN 0 ELSE CHOOSE m \in S : \A x \in S : x <= m

audit_data(t, hdr) ==
    [rows |-> Len(t),
     columns |-> Cardinality(hdr),
     duplicates |-> Cardinality({i \in Rows(t) : duplicated(t, i)}),
     max_missing |-> MaxOver({MissingIn(t, c) : c \in hdr \cap KeyCols})]

(***************************************************************************)
(* clean_data, step by step                                                *)
(***************************************************************************)
\* drop_duplicates with keep='last' in place of the default keep='first'
drop_duplicates_keep_last(t) ==
    LET last(i) == \A j \in (i + 1)..Len(t) : t[j] # t[i]
        F[i \in 0..Len(t)] ==
            IF i = 0 THEN <<>>
            ELSE IF last(i) THEN Append(F[i - 1], t[i]) ELSE F[i - 1]
    IN  F[Len(t)]

\* 1) df.drop_duplicates(): keep='first', order of the survivors kept
drop_duplicates(t) ==
    LET F[i \in 0..Len(t)] ==
            IF i = 0 THEN <<>>
            ELSE IF duplicated(t, i) THEN F[i - 1] ELSE Append(F[i - 1], t[i])
    IN  F[Len(t)]

\* round(num / den) to the nearest integer, ties to even (numpy's round)
RoundHalfEven(num, den) ==
    LET q == num \div den
        r == num % den
    IN  IF 2 * r < den THEN q
        ELSE IF 2 * r > den THEN q + 1
        ELSE IF q % 2 = 0 THEN q ELSE q + 1

\* 2) age_years = (age / 365.25).round(1), kept in tenths of a year
age_years(row) == RoundHalfEven(40 * row.age, 1461)

\* 3) pd.to_numeric(errors="coerce")
to_numeric(c) == IF c.k = "text" THEN NaN ELSE c

CoerceStep(t) ==
    LET F[n \in 0..Len(KEY_COLUMNS)] ==
            IF n = 0 THEN t
            ELSE SetCol(F[n - 1], KEY_COLUMNS[n],
                        [i \in Rows(t) |-> to_numeric(t[i][KEY_COLUMNS[n]])])
    IN  F[Len(KEY_COLUMNS)]

\* 4) the ranges
HEIGHT_MIN == 120
HEIGHT_MAX == 220
WEIGHT_MIN == 35
WEIGHT_MAX == 200
AP_HI_MIN == 70
AP_HI_MAX == 250
AP_LO_MIN == 40
AP_LO_MAX == 150

\* between with inclusive="neither"
between_exclusive(c, left, right) == c.k = "num" /\ 2 * left < c.v /\ c.v < 2 * right

\* Series.between(left, right), inclusive="both"; False on NaN
between(c, left, right) == c.k = "num" /\ 2 * left <= c.v /\ c.v <= 2 * right

RangeCol(t, col, left, right) ==
    SetCol(t, col,
           [i \in Rows(t) |-> IF ~between(t[i][col], left, right) THEN NaN ELSE t[i][col]])

RangeStep(t) ==
    RangeCol(RangeCol(RangeCol(RangeCol(t,
        "height", HEIGHT_MIN, HEIGHT_MAX),
        "weight", WEIGHT_MIN, WEIGHT_MAX),
        "ap_hi", AP_HI_MIN, AP_HI_MAX),
        "ap_lo", AP_LO_MIN, AP_LO_MAX)

\* the consistency test with < in place of <=
bad_bp_strict(row) == notna(row.ap_hi) /\ notna(row.ap_lo) /\ row.ap_hi.v < row.ap_lo.v

\* 5) systolic must be greater than diastolic
bad_bp(row) == notna(row.ap_hi) /\ notna(row.ap_lo) /\ row.ap_hi.v <= row.ap_lo.v

BpStep(t) ==
    [i \in Rows(t) |->
        IF bad_bp(t[i]) THEN [t[i] EXCEPT !.ap_hi = NaN, !.ap_lo = NaN] ELSE t[i]]

\* 6) Series.median(): NaN skipped; NaN when nothing is left
Present(t, col) == {i \in Rows(t) : notna(t[i][col])}

Kth(t, col, k) ==
    LET P == Present(t, col)
    IN  CHOOSE v \in {t[i][col].v : i \in P} :
            /\ Cardinality({i \in P : t[i][col].v < v}) < k
            /\ k <= Cardinality({i \in P : t[i][col].v <= v})

\* a median that does not skip NaN (numpy's median): NaN once a value is missing
median_nan_unskipped(t, col) ==
    LET n == Cardinality(Present(t, col))
    IN  IF n = 0 \/ n < Len(t) THEN NaN
        ELSE IF n % 2 = 1 THEN Half(Kth(t, col, (n + 1) \div 2))
        ELSE Half((Kth(t, col, n \div 2) + Kth(t, col, n \div 2 + 1)) \div 2)

\* a median that takes the lower middle value of an even count
median_lower(t, col) ==
    LET n == Cardinality(Present(t, col))
    IN  IF n = 0 THEN NaN ELSE Half(Kth(t, col, (n + 1) \div 2))

median(t, col) ==
    LET n == Cardinality(Present(t, col))
    IN  IF n = 0 THEN NaN
        ELSE IF n % 2 = 1 THEN Half(Kth(t, col, (n + 1) \div 2))
        ELSE Half((Kth(t, col, n \div 2) + Kth(t, col, n \div 2 + 1)) \div 2)

\* Series.fillna(value): a NaN value fills nothing
fillna(c, value) == IF isna(c) /\ notna(value) THEN value ELSE c

ImputeCol(t, col) ==
    LET m == median(t, col)
    IN  SetCol(t, col, [i \in Rows(t) |-> fillna(t[i][col], m)])

ImputeStep(t) ==
    LET F[n \in 0..Len(KEY_COLUMNS)] ==
            IF n = 0 THEN t ELSE ImputeCol(F[n - 1], KEY_COLUMNS[n])
    IN  F[Len(KEY_COLUMNS)]

(***************************************************************************)
(* add_features                                                            *)
(***************************************************************************)
HYPERTENSION_AP_HI == 140
HYPERTENSION_AP_LO == 90
OBESITY_BMI == 30

\* bmi = (weight / (height / 100) ** 2).round(2), kept in hundredths
bmi(row) ==
    IF isna(row.weight) \/ isna(row.height) THEN NaN
    ELSE Half(RoundHalfEven(2000000 * row.weight.v, row.height.v * row.height.v))

\* pulse_pressure = ap_hi - ap_lo, in halves
pulse_pressure(row) ==
    IF isna(row.ap_hi) \/ isna(row.ap_lo) THEN NaN
    ELSE Half(row.ap_hi.v - row.ap_lo.v)

\* a comparison with NaN is False
ge(c, bound) == notna(c) /\ c.v >= bound

\* the thresholds with > in place of >=
hypertension_strict(row) ==
    IF ge(row.ap_hi, 2 * HYPERTENSION_AP_HI + 1) \/ ge(row.ap_lo, 2 * HYPERTENSION_AP_LO + 1)
    THEN 1 ELSE 0

hypertension(row) ==
    IF ge(row.ap_hi, 2 * HYPERTENSION_AP_HI) \/ ge(row.ap_lo, 2 * HYPERTENSION_AP_LO)
    THEN 1 ELSE 0

obesity(row) == IF ge(row.bmi, 100 * OBESITY_BMI) THEN 1 ELSE 0

add_features(t) ==
    LET t1 == AddCol(t, "bmi", [i \in Rows(t) |-> bmi(t[i])])
        t2 == AddCol(t1, "pulse_pressure", [i \in Rows(t) |-> pulse_pressure(t1[i])])
        t3 == AddCol(t2, "hypertension", [i \in Rows(t) |-> hypertension(t2[i])])
    IN  AddCol(t3, "obesity", [i \in Rows(t) |-> obesity(t3[i])])

(***************************************************************************)
(* The raw input file: missing, malformed, or a header and its rows.       *)
(***************************************************************************)
Headers == {RAW_COLUMNS, RAW_COLUMNS \ {"age"}}

Tables(RowSet) == UNION {[1..n -> RowSet] : n \in 0..MaxRows}

\* pd.read_csv(path, sep=";"): one column per header field
load_data(f) == [i \in Rows(f.rows) |-> [c \in f.hdr |-> f.rows[i][c]]]

(***************************************************************************)
(* main                                                                    *)
(***************************************************************************)
\* an exception that is caught and passed over: main goes on to its last line
Fail_swallowed(stage) ==
    /\ pc' = "print"
    /\ err' = stage

\* an exception of a stage propagates out of main
Fail(stage) ==
    /\ pc' = "failed"
    /\ err' = stage

\* the first n names of a list of output files
FirstN(names, n) == {names[i] : i \in 1..n}

\* A run of writes over `names`: all of them, or the first n and then an
\* exception at the next one, which may already have created its file.
WriteAll(names, stage, next) ==
    \/ /\ files' = files \cup FirstN(names, Len(names))
       /\ partial' = partial
       /\ pc' = next
       /\ err' = err
    \/ \E n \in 0..(Len(names) - 1), created \in BOOLEAN :
          /\ files' = files \cup FirstN(names, n)
          /\ partial' = IF created THEN {names[n + 1]} ELSE {}
          /\ Fail(stage)

CreateDirectories ==
    /\ pc = "start"
    /\ \/ dirs' = TRUE /\ pc' = "load" /\ err' = err
       \/ dirs' = dirs /\ Fail("create_directories")
    /\ UNCHANGED <<file, df_raw, audit, df, files, partial, printed>>

\* a load that turns a missing or malformed file into an empty frame
LoadData_empty_on_error ==
    /\ pc = "load"
    /\ df_raw' = (IF file.kind = "ok" THEN load_data(file) ELSE <<>>)
    /\ pc' = "audit"
    /\ UNCHANGED <<file, dirs, audit, df, files, partial, printed, err>>

LoadData ==
    /\ pc = "load"
    /\ IF file.kind = "ok"
       THEN df_raw' = load_data(file) /\ pc' = "audit" /\ err' = err
       ELSE df_raw' = df_raw /\ Fail("load_data")
    /\ UNCHANGED <<file, dirs, audit, df, files, partial, printed>>

Audit ==
    /\ pc = "audit"
    /\ audit' = audit_data(df_raw, file.hdr)
    /\ WriteAll(<<AUDIT_FILE>>, "audit", "drop_duplicates")
    /\ UNCHANGED <<file, dirs, df_raw, df, printed>>

CleanStep(at, result, next) ==
    /\ pc = at
    /\ df' = result
    /\ pc' = next
    /\ UNCHANGED <<file, dirs, df_raw, audit, files, partial, printed, err>>

DropDuplicates == CleanStep("drop_duplicates", drop_duplicates(df_raw), "age_years")

AgeYears ==
    /\ pc = "age_years"
    /\ IF "age" \in file.hdr
       THEN /\ df' = AddCol(df, "age_years", [i \in Rows(df) |-> age_years(df[i])])
            /\ pc' = "to_numeric"
            /\ err' = err
       ELSE /\ df' = df
            /\ Fail("clean_data")
    /\ UNCHANGED <<file, dirs, df_raw, audit, files, partial, printed>>

ToNumeric == CleanStep("to_numeric", CoerceStep(df), "ranges")

Ranges == CleanStep("ranges", RangeStep(df), "bad_bp")

BadBp == CleanStep("bad_bp", BpStep(df), "fillna")

FillNa == CleanStep("fillna", ImputeStep(df), "add_features")

AddFeatures == CleanStep("add_features", add_features(df), "save_tables")

SaveTables ==
    /\ pc = "save_tables"
    /\ WriteAll(TABLE_FILES, "save_tables", "save_figures")
    /\ UNCHANGED <<file, dirs, df_raw, audit, df, printed>>

SaveFigures ==
    /\ pc = "save_figures"
    /\ WriteAll(FIGURE_FILES, "save_figures", "to_csv")
    /\ UNCHANGED <<file, dirs, df_raw, audit, df, printed>>

WriteProcessed ==
    /\ pc = "to_csv"
    /\ WriteAll(<<PROCESSED_DATA_PATH>>, "to_csv", "print")
    /\ UNCHANGED <<file, dirs, df_raw, audit, df, printed>>

PrintDone ==
    /\ pc = "print"
    /\ printed' = TRUE
    /\ pc' = "done"
    /\ UNCHANGED <<file, dirs, df_raw, audit, df, files, partial, err>>

Next ==
    \/ CreateDirectories
    \/ LoadData
    \/ Audit
    \/ DropDuplicates
    \/ AgeYears
    \/ ToNumeric
    \/ Ranges
    \/ BadBp
    \/ FillNa
    \/ AddFeatures
    \/ SaveTables
    \/ SaveFigures
    \/ WriteProcessed
    \/ PrintDone

\* A raw row; one value for every column no stage computes with.
Row(id, height, weight, ap_hi, ap_lo) ==
    [id |-> id, age |-> 18393, gender |-> 2, height |-> height, weight |-> weight,
     ap_hi |-> ap_hi, ap_lo |-> ap_lo, cholesterol |-> 1, gluc |-> 1, smoke |-> 0,
     alco |-> 0, active |-> 1, cardio |-> 0]

\* Blood-pressure inputs: out of range, unparseable, equal and reversed pairs,
\* and the hypertension thresholds.
BpRows ==
    {Row(1, Num(170), Num(70), hi, lo) :
        hi \in {Num(139), Num(140), Num(300)},
        lo \in {Text, Num(89), Num(90), Num(140)}}

\* Height and weight inputs: out of range, unparseable, empty.
HwRows ==
    {Row(1, h, w, Num(120), Num(80)) :
        h \in {Num(60), Num(160), Num(175)},
        w \in {NaN, Text, Num(70)}}

\* Rows that agree in every field, in every field but id, or in neither.
DupRows ==
    {Row(id, h, Num(70), Num(120), Num(80)) : id \in {1, 2}, h \in {Num(160), Num(170)}}

\* One row at and next to each bound of each range.
RangeRows ==
    {Row(1, h, w, hi, lo) :
        h \in {Num(119), Num(120), Num(220), Num(221)},
        w \in {Num(34), Num(35), Num(200), Num(201)},
        hi \in {Num(69), Num(70), Num(250), Num(251)},
        lo \in {Num(39), Num(40), Num(150), Num(151)}}

RawTables ==
    Tables(BpRows) \cup Tables(HwRows) \cup Tables(DupRows)
        \cup {<<r>> : r \in RangeRows}

InputFiles ==
    {[kind |-> "missing", hdr |-> {}, rows |-> <<>>],
     [kind |-> "malformed", hdr |-> {}, rows |-> <<>>]}
        \cup [kind : {"ok"}, hdr : Headers, rows : RawTables]

Init ==
    /\ pc = "start"
    /\ file \in InputFiles
    /\ dirs = FALSE
    /\ df_raw = NoFrame
    /\ audit = NoAudit
    /\ df = NoFrame
    /\ files = {}
    /\ partial = {}
    /\ printed = FALSE
    /\ err = ""

Spec == Init /\ [][Next]_vars

(***************************************************************************)
(* Positions of main() and what each stage writes.                         *)
(***************************************************************************)
\* df holds clean_data's result (with the features added later on)
AfterClean == {"add_features", "save_tables", "save_figures", "to_csv", "print", "done"}

\* df holds add_features' result
AfterFeatures == {"save_tables", "save_figures", "to_csv", "print", "done"}

\* the output files in the order main() writes them
WriteOrder == <<AUDIT_FILE>> \o TABLE_FILES \o FIGURE_FILES \o <<PROCESSED_DATA_PATH>>

\* how many output files are complete before the given stage starts
WrittenBefore(stage) ==
    CASE stage \in {"create_directories", "load_data", "audit"} -> 0
      [] stage = "clean_data" -> 1
      [] stage = "save_tables" -> 1
      [] stage = "save_figures" -> 4
      [] stage = "to_csv" -> 6

\* how many output files the given stage writes
WrittenBy(stage) ==
    CASE stage \in {"create_directories", "load_data", "clean_data"} -> 0
      [] stage \in {"audit", "to_csv"} -> 1
      [] stage = "save_tables" -> 3
      [] stage = "save_figures" -> 2

NoMissing(t, col) == \A i \in Rows(t) : notna(t[i][col])

\* the non-missing values of a column, in ascending order
SortedValues(t, col) ==
    LET F[i \in 0..Len(t)] ==
            IF i = 0 THEN <<>>
            ELSE IF notna(t[i][col]) THEN Append(F[i - 1], t[i][col].v) ELSE F[i - 1]
    IN  SortSeq(F[Len(t)], LAMBDA a, b : a < b)

\* the middle of the sorted values (the mean of the two middle ones)
MiddleValue(t, col) ==
    LET s == SortedValues(t, col)
        n == Len(s)
    IN  IF n = 0 THEN NaN
        ELSE Half((s[(n + 1) \div 2] + s[(n + 2) \div 2]) \div 2)

(***************************************************************************)
(* C1                                                                      *)
(***************************************************************************)
\* C1 as stated: after clean_data the columns height, weight, ap_hi and
\* ap_lo contain no missing value, whatever the raw table.
C1_NoMissingAfterClean ==
    pc \in AfterClean => \A c \in KeyCols : NoMissing(df, c)

\* C1 as amended: the median fill leaves a column of a non-empty frame
\* without missing values exactly when at least one value of that column is
\* non-missing after coercion, range validation and the blood-pressure
\* step; a column nulled in every row stays missing in every row.
C1_NoMissingIffSomePresent ==
    [][pc = "fillna" =>
        \A c \in KeyCols :
            /\ NoMissing(df', c) <=> (Len(df) = 0 \/ \E i \in Rows(df) : notna(df[i][c]))
            /\ (\A i \in Rows(df) : isna(df[i][c])) => (\A i \in Rows(df') : isna(df'[i][c]))
    ]_vars

\* a cleaned frame whose ap_hi column was nulled in every row and is still
\* missing, while its ap_lo column, with one unparseable value, is filled
C1_Witness ==
    /\ pc = "add_features"
    /\ Len(df) = 2
    /\ df_raw[1].ap_hi = Num(300) /\ df_raw[2].ap_hi = Num(300)
    /\ df_raw[1].ap_lo = Text /\ df_raw[2].ap_lo = Num(89)
    /\ isna(df[1].ap_hi) /\ isna(df[2].ap_hi)
    /\ df[1].ap_lo = Num(89) /\ df[2].ap_lo = Num(89)

(***************************************************************************)
(* C2                                                                      *)
(***************************************************************************)
\* C2: every cleaned row has ap_hi > ap_lo unless both of its values were
\* imputed, that is, both were missing when the median fill ran.  Stated for
\* the rows whose two values are present after the fill.
C2_HiAboveLoUnlessBothImputed ==
    [][pc = "fillna" =>
        \A i \in Rows(df') :
            (notna(df'[i].ap_hi) /\ notna(df'[i].ap_lo)) =>
                \/ df'[i].ap_hi.v > df'[i].ap_lo.v
                \/ isna(df[i].ap_hi) /\ isna(df[i].ap_lo)
    ]_vars

(***************************************************************************)
(* C3                                                                      *)
(***************************************************************************)
\* C3: pulse_pressure of add_features(clean_data(raw)) is never negative.
C3_PulsePressureNonNegative ==
    pc \in AfterFeatures =>
        \A i \in Rows(df) : notna(df[i].pulse_pressure) => df[i].pulse_pressure.v >= 0

(***************************************************************************)
(* C4                                                                      *)
(***************************************************************************)
\* C4 as stated: a run that failed at any stage has written no output file
\* (not even counting a file its failed write left incomplete).
C4_AllOrNothing ==
    pc = "failed" => files = {}

\* C4 as amended: a failure ends the run where it happens.  The files a
\* failed run has written are all the outputs of the stages before the
\* failing one and the outputs the failing stage completed, in main's order;
\* at most the one file the failing write was at is left incomplete; no file
\* of a later stage is written, and the completion message is not printed.
\* The message is printed only after all seven files are written.
C4_FailureStopsTheRun ==
    /\ \E n \in 0..Len(WriteOrder) :
          /\ files = FirstN(WriteOrder, n)
          /\ partial \subseteq (IF n < Len(WriteOrder) THEN {WriteOrder[n + 1]} ELSE {})
    /\ pc = "failed" =>
          /\ ~printed
          /\ FirstN(WriteOrder, WrittenBefore(err)) \subseteq files
          /\ files \cup partial \subseteq FirstN(WriteOrder, WrittenBefore(err) + WrittenBy(err))
          /\ files # OutputFiles
    /\ pc # "failed" => (err = "" /\ partial = {})
    /\ printed => (files = OutputFiles /\ pc = "done")
    /\ pc \in {"print", "done"} => files = OutputFiles

\* save_tables failed after audit_summary.csv and descriptive_statistics.csv
\* were written
C4_Witness ==
    /\ pc = "failed"
    /\ err = "save_tables"
    /\ files = {AUDIT_FILE, TABLE_FILES[1]}
    /\ partial = {TABLE_FILES[2]}
    /\ Len(df) > 0

(***************************************************************************)
(* C5                                                                      *)
(***************************************************************************)
\* C5: when the input file is missing or malformed, main stops at load_data:
\* nothing is loaded, audited or cleaned, no output file is written and the
\* completion message is not printed.
C5_LoadFailureWritesNothing ==
    (file.kind # "ok" /\ pc \notin {"start", "load"}) =>
        /\ pc = "failed"
        /\ err \in {"create_directories", "load_data"}
        /\ files = {} /\ partial = {}
        /\ ~printed
        /\ df_raw = NoFrame /\ df = NoFrame /\ audit = NoAudit

C5_Witness ==
    /\ file.kind = "malformed"
    /\ pc = "failed"
    /\ err = "load_data"
    /\ dirs

(***************************************************************************)
(* C6                                                                      *)
(***************************************************************************)
RowSetOf(t) == {t[i] : i \in Rows(t)}

FirstIndex(t, r) == CHOOSE i \in Rows(t) : t[i] = r /\ \A j \in 1..(i - 1) : t[j] # r

\* C6: drop_duplicates returns the rows of its input, each once, in the
\* order of their first occurrences; the row count drops by the number of
\* rows equal to an earlier one; a second application removes nothing.
C6_DedupKeepsFirstInOrder ==
    [][pc = "drop_duplicates" =>
        /\ RowSetOf(df') = RowSetOf(df_raw)
        /\ Len(df') = Cardinality(RowSetOf(df_raw))
        /\ \A k, l \in Rows(df') :
              k < l => FirstIndex(df_raw, df'[k]) < FirstIndex(df_raw, df'[l])
        /\ (Len(df_raw) = 2 /\ df_raw[1] = df_raw[2]) => Len(df') = Len(df_raw) - 1
        /\ drop_duplicates(df') = df'
    ]_vars

\* rows a, b, a (b differing from a in id alone) were reduced to a, b
C6_Witness ==
    /\ pc = "age_years"
    /\ Len(df_raw) = 3
    /\ df_raw[1] = df_raw[3]
    /\ df_raw[1].id # df_raw[2].id
    /\ df_raw[1].height = df_raw[2].height
    /\ df = <<df_raw[1], df_raw[2]>>

(***************************************************************************)
(* C7                                                                      *)
(***************************************************************************)
\* b is q rounded to the nearest integer, for q = num / den
IsNearest(b, num, den) ==
    /\ 2 * (b * den - num) <= den
    /\ 2 * (num - b * den) <= den

\* C7: the median fill replaces every missing value of each of the four
\* columns by the middle of that column's values that are non-missing when
\* the fill runs, and leaves every other value as it is; bmi is then
\* computed from the filled height and weight.
C7_FillWithColumnMedian ==
    [][/\ pc = "fillna" =>
            /\ Len(df') = Len(df)
            /\ \A i \in Rows(df) :
                  /\ \A c \in KeyCols :
                        df'[i][c] = IF notna(df[i][c]) THEN df[i][c] ELSE MiddleValue(df, c)
                  /\ \A c \in DOMAIN df[i] \ KeyCols : df'[i][c] = df[i][c]
       /\ pc = "add_features" =>
            \A i \in Rows(df) :
                (notna(df[i].height) /\ notna(df[i].weight)) =>
                    IsNearest(df'[i].bmi.v, 2000000 * df[i].weight.v, df[i].height.v * df[i].height.v)
    ]_vars

\* heights 60, 160, 175: the 60 is out of range and ends as 167.5, the
\* median of 160 and 175, and the row's bmi, 70 / 1.675^2 = 24.95, comes
\* from it
C7_Witness ==
    /\ pc = "save_tables"
    /\ Len(df) = 3
    /\ df_raw[1].height = Num(60) /\ df_raw[2].height = Num(160) /\ df_raw[3].height = Num(175)
    /\ df_raw[1].weight = Num(70)
    /\ df[1].height = Half(335)
    /\ df[2].height = Num(160) /\ df[3].height = Num(175)
    /\ df[1].bmi = Half(2495)

(***************************************************************************)
(* C8                                                                      *)
(***************************************************************************)
\* C8: the blood-pressure step sets ap_hi and ap_lo to missing together in
\* every row where both are present and ap_hi <= ap_lo, and changes nothing
\* else.
C8_BadPairsNulledTogether ==
    [][pc = "bad_bp" =>
        /\ Len(df') = Len(df)
        /\ \A i \in Rows(df) :
              IF df[i].ap_hi.k = "num" /\ df[i].ap_lo.k = "num" /\ df[i].ap_hi.v <= df[i].ap_lo.v
              THEN /\ df'[i].ap_hi = NaN
                   /\ df'[i].ap_lo = NaN
                   /\ \A c \in DOMAIN df[i] \ {"ap_hi", "ap_lo"} : df'[i][c] = df[i][c]
              ELSE df'[i] = df[i]
    ]_vars

\* an equal pair (140, 140) was nulled, a row with a missing ap_lo kept its
\* ap_hi, and a consistent pair was kept
C8_Witness ==
    /\ pc = "fillna"
    /\ Len(df) = 3
    /\ df_raw[1].ap_hi = Num(140) /\ df_raw[1].ap_lo = Num(140)
    /\ isna(df[1].ap_hi) /\ isna(df[1].ap_lo)
    /\ df_raw[2].ap_lo = Text
    /\ df[2].ap_hi = Num(139) /\ isna(df[2].ap_lo)
    /\ df[3].ap_hi = Num(140) /\ df[3].ap_lo = Num(90)

(***************************************************************************)
(* C9                                                                      *)
(***************************************************************************)
\* v (in halves) lies within [left, right]
Within(c, left, right) == c.k = "num" /\ c.v >= 2 * left /\ c.v <= 2 * right

InRange(col, c) ==
    CASE col = "height" -> Within(c, 120, 220)
      [] col = "weight" -> Within(c, 35, 200)
      [] col = "ap_hi" -> Within(c, 70, 250)
      [] col = "ap_lo" -> Within(c, 40, 150)

\* C9: range validation nulls a value exactly when it lies outside the
\* inclusive bounds of its column, each column on its own, and changes no
\* other column.
C9_RangesInclusivePerColumn ==
    [][pc = "ranges" =>
        /\ Len(df') = Len(df)
        /\ \A i \in Rows(df) :
              /\ \A c \in KeyCols :
                    df'[i][c] = IF InRange(c, df[i][c]) THEN df[i][c] ELSE NaN
              /\ \A c \in DOMAIN df[i] \ KeyCols : df'[i][c] = df[i][c]
    ]_vars

\* a row with height at its lower bound and ap_hi at its upper bound, both
\* kept, and weight and ap_lo one beyond a bound, both nulled
C9_Witness ==
    /\ pc = "bad_bp"
    /\ Len(df) = 1
    /\ df_raw[1].height = Num(120) /\ df[1].height = Num(120)
    /\ df_raw[1].ap_hi = Num(250) /\ df[1].ap_hi = Num(250)
    /\ df_raw[1].weight = Num(34) /\ isna(df[1].weight)
    /\ df_raw[1].ap_lo = Num(151) /\ isna(df[1].ap_lo)

(***************************************************************************)
(* C10                                                                     *)
(***************************************************************************)
\* C10: hypertension is 1 exactly when ap_hi >= 140 or ap_lo >= 90, and 0
\* otherwise.
C10_HypertensionThresholds ==
    pc \in AfterFeatures =>
        \A i \in Rows(df) :
            /\ df[i].hypertension \in {0, 1}
            /\ df[i].hypertension = 1 <=>
                  \/ df[i].ap_hi.k = "num" /\ df[i].ap_hi.v >= 280
                  \/ df[i].ap_lo.k = "num" /\ df[i].ap_lo.v >= 180

\* (139, 89) gives 0; (140, 89) and (139, 90) give 1
C10_Witness ==
    /\ pc = "save_tables"
    /\ Len(df) = 3
    /\ df[1].ap_hi = Num(139) /\ df[1].ap_lo = Num(89) /\ df[1].hypertension = 0
    /\ df[2].ap_hi = Num(140) /\ df[2].ap_lo = Num(89) /\ df[2].hypertension = 1
    /\ df[3].ap_hi = Num(139) /\ df[3].ap_lo = Num(90) /\ df[3].hypertension = 1

====
